---- MODULE Spec2Model ----
(***************************************************************************)
(* Model of src/build.py: the static-site build pipeline                   *)
(*   setup_directories -> copy_static_files -> generate_sitemap ->         *)
(*   generate_build_info                                                   *)
(* run by build() over a content tree and an output (dist) tree.           *)
(*                                                                         *)
(* A file-system node is a record: Absent, File(data) or Dir(children),    *)
(* where children maps entry names to nodes.  File data is a record whose  *)
(* fields tell what wrote it: [bytes] for content bytes, [urls] for a      *)
(* generated sitemap, [build_time, build_env, git_commit, version] for a   *)
(* generated build-info.json.                                              *)
(***************************************************************************)
EXTENDS Integers, Sequences, FiniteSets, TLC

VARIABLES
    content,    \* node at config.content_dir
    dist,       \* node at config.dist_dir
    clean,      \* config.clean of the running invocation
    env,        \* config.env of the running invocation
    gitEnv,     \* what running `git rev-parse --short HEAD` does on this machine
    pc,         \* position of build(): start, prepare, copy, sitemap, build-info, done, failed
    exit_code,  \* process exit status, NotExited while running
    todo,       \* names copy_static_files' loop has still to visit
    clock,      \* datetime.now(), strictly increasing
    run,        \* number of the running invocation
    steps,      \* the steps build() has entered in this invocation, in order
    dist0,      \* dist when this invocation started
    written,    \* file paths (relative to dist) copy_static_files wrote in this invocation
    prev        \* outcome of the previous invocation

vars == <<content, dist, clean, env, gitEnv, pc, exit_code, todo, clock, run,
          steps, dist0, written, prev>>

----------------------------------------------------------------------------
(* Bounds and the universe of names                                        *)

\* invocations of the script made in a row
MaxRuns == 2

\* names the top level of the initial content and output trees draw from
TopNames == {"index.html", "a"}

\* names the second level of the initial trees draws from
SubNames == {"index.html"}

\* the names generate_sitemap and generate_build_info write at the output root
ArtefactNames == {"sitemap.xml", "build-info.json"}

\* the names of the universe that fnmatch(name, "*.html") accepts
HtmlNames == {"index.html"}

NoValue == "None"

\* the value of exit_code while the process runs
NotExited == 0 - 1

Envs == {"production", "development"}

\* outcomes of subprocess.run(['git', ...], check=True)
GitOk == "ok"
GitNotInstalled == "FileNotFoundError"
GitNotARepo == "CalledProcessError"
GitPermission == "PermissionError"
GitEnvs == {GitOk, GitNotInstalled, GitNotARepo, GitPermission}

----------------------------------------------------------------------------
(* File-system nodes                                                       *)

Absent == [kind |-> "absent"]
File(d) == [kind |-> "file", data |-> d]
Dir(c) == [kind |-> "dir", ch |-> c]
EmptyCh == <<>>

Exists(n) == n.kind # "absent"
IsFile(n) == n.kind = "file"
IsDir(n) == n.kind = "dir"

Bytes(b) == [bytes |-> b]

\* every path strictly below node n, with the node found there
RECURSIVE Walk(_)
Walk(n) ==
    IF ~IsDir(n) THEN {}
    ELSE UNION {
        {[path |-> <<c>>, node |-> n.ch[c]]}
            \cup {[path |-> <<c>> \o e.path, node |-> e.node] : e \in Walk(n.ch[c])}
        : c \in DOMAIN n.ch}

----------------------------------------------------------------------------
(* shutil.copy2 and shutil.copytree(dirs_exist_ok=True), as called by      *)
(* copy_static_files.  Each takes the children of the destination          *)
(* directory and the entry name, and gives the node left at that name,     *)
(* whether the call returned without raising, and the file paths written.  *)

\* shutil.copy2(item, dst_dir / name): a destination that is a directory
\* receives the file inside it under the source's base name
copy2(srcData, dstCh, name) ==
    IF name \notin DOMAIN dstCh \/ IsFile(dstCh[name])
    THEN [node |-> File(srcData), ok |-> TRUE, wrote |-> {<<name>>}]
    ELSE LET inner == dstCh[name].ch IN
         IF name \in DOMAIN inner /\ IsDir(inner[name])
         THEN [node |-> dstCh[name], ok |-> FALSE, wrote |-> {}]
         ELSE [node |-> Dir([n \in DOMAIN inner \cup {name} |->
                               IF n = name THEN File(srcData) ELSE inner[n]]),
               ok |-> TRUE, wrote |-> {<<name, name>>}]

RECURSIVE CopyEntry(_, _, _)
RECURSIVE copytree(_, _, _)

\* one entry of the loop of copy_static_files (and of copytree's own loop)
CopyEntry(src, dstCh, name) ==
    IF IsFile(src) THEN copy2(src.data, dstCh, name)
    ELSE copytree(src.ch, dstCh, name)

\* copytree called without dirs_exist_ok: makedirs raises on any existing destination
copytree_NoExistOk(srcCh, dstCh, name) ==
    IF name \in DOMAIN dstCh
    THEN [node |-> dstCh[name], ok |-> FALSE, wrote |-> {}]
    ELSE LET res == [n \in DOMAIN srcCh |-> CopyEntry(srcCh[n], EmptyCh, n)]
         IN [node |-> Dir([n \in DOMAIN srcCh |-> res[n].node]),
             ok |-> \A n \in DOMAIN srcCh : res[n].ok,
             wrote |-> {<<name>> \o p : p \in UNION {res[n].wrote : n \in DOMAIN srcCh}}]

\* shutil.copytree(item, dst_dir / name, dirs_exist_ok=True): makedirs
\* raises when the destination is a file; errors of the entries are
\* collected and raised after every entry was tried
copytree(srcCh, dstCh, name) ==
    IF name \in DOMAIN dstCh /\ IsFile(dstCh[name])
    THEN [node |-> dstCh[name], ok |-> FALSE, wrote |-> {}]
    ELSE LET base == IF name \in DOMAIN dstCh THEN dstCh[name].ch ELSE EmptyCh
             res == [n \in DOMAIN srcCh |-> CopyEntry(srcCh[n], base, n)]
         IN [node |-> Dir([n \in DOMAIN base \cup DOMAIN srcCh |->
                             IF n \in DOMAIN srcCh THEN res[n].node ELSE base[n]]),
             ok |-> \A n \in DOMAIN srcCh : res[n].ok,
             wrote |-> {<<name>> \o p : p \in UNION {res[n].wrote : n \in DOMAIN srcCh}}]

\* open(dir / name, 'w') and a write of data: raises when the name is a directory
WriteFile(d, name, data) ==
    IF name \in DOMAIN d.ch /\ IsDir(d.ch[name])
    THEN [node |-> d, ok |-> FALSE]
    ELSE [node |-> Dir([n \in DOMAIN d.ch \cup {name} |->
                          IF n = name THEN File(data) ELSE d.ch[n]]),
          ok |-> TRUE]

----------------------------------------------------------------------------
(* setup_directories                                                       *)

\* setup_directories with the check of content_dir moved below the mkdir
setup_directories_LateCheck(c, d, cl) ==
    IF IsFile(d) THEN [dist |-> d, ok |-> FALSE]
    ELSE [dist |-> IF cl \/ ~Exists(d) THEN Dir(EmptyCh) ELSE d, ok |-> Exists(c)]

\* setup_directories without the rmtree
setup_directories_NoClean(c, d, cl) ==
    IF ~Exists(c) \/ IsFile(d) THEN [dist |-> d, ok |-> FALSE]
    ELSE [dist |-> IF Exists(d) THEN d ELSE Dir(EmptyCh), ok |-> TRUE]

\* setup_directories with the rmtree done whatever config.clean says
setup_directories_AlwaysClean(c, d, cl) ==
    IF ~Exists(c) \/ IsFile(d) THEN [dist |-> d, ok |-> FALSE]
    ELSE [dist |-> Dir(EmptyCh), ok |-> TRUE]

\* what setup_directories leaves at dist_dir and whether it returned: it
\* exits when content is missing, and rmtree and mkdir raise on a regular file
setup_directories(c, d, cl) ==
    IF ~Exists(c) THEN [dist |-> d, ok |-> FALSE]
    ELSE IF IsFile(d) THEN [dist |-> d, ok |-> FALSE]
    ELSE IF cl \/ ~Exists(d) THEN [dist |-> Dir(EmptyCh), ok |-> TRUE]
    ELSE [dist |-> d, ok |-> TRUE]

----------------------------------------------------------------------------
(* generate_sitemap                                                        *)

\* dist_dir.rglob('*.html'): every path below d whose last name matches
RGlobHtml(d) == {e.path : e \in {w \in Walk(d) : w.path[Len(w.path)] \in HtmlNames}}

\* str(relative_path): the names joined by the platform's separator
RECURSIVE StrPath(_, _)
StrPath(p, sep) ==
    IF Len(p) = 1 THEN <<p[1]>>
    ELSE <<p[1], sep>> \o StrPath(Tail(p), sep)

\* .replace('\\', '/')
ReplaceBackslash(s) == [i \in DOMAIN s |-> IF s[i] = "\\" THEN "/" ELSE s[i]]

\* url_path with the index.html segment dropped at every depth
UrlPath_AnyDepth(p, sep) ==
    LET url_path == ReplaceBackslash(StrPath(p, sep))
    IN IF url_path[Len(url_path)] = "index.html"
       THEN SubSeq(url_path, 1, Len(url_path) - 1)
       ELSE url_path

\* url_path of one html_file, and the text of its loc element
UrlPath(p, sep) ==
    LET url_path == ReplaceBackslash(StrPath(p, sep))
    IN IF url_path = <<"index.html">> THEN <<>> ELSE url_path

Loc(p, sep) == <<"/">> \o UrlPath(p, sep)

\* the url elements of the sitemap: how many times each loc is emitted
SitemapUrls(d, sep) ==
    LET html_files == RGlobHtml(d)
    IN [l \in {Loc(p, sep) : p \in html_files} |->
          Cardinality({p \in html_files : Loc(p, sep) = l})]

generate_sitemap(d, sep) == WriteFile(d, "sitemap.xml", [urls |-> SitemapUrls(d, sep)])

----------------------------------------------------------------------------
(* generate_build_info                                                     *)

\* get_git_commit: the two caught exceptions give None, any other propagates
get_git_commit(outcome) ==
    IF outcome = GitOk THEN [raised |-> FALSE, value |-> "abc1234"]
    ELSE IF outcome \in {GitNotARepo, GitNotInstalled} THEN [raised |-> FALSE, value |-> NoValue]
    ELSE [raised |-> TRUE, value |-> NoValue]

\* get_version: the VERSION file, else the VERSION variable, else 1.0.0
get_version(versionFile, versionVar) ==
    IF versionFile # NoValue THEN versionFile
    ELSE IF versionVar # NoValue THEN versionVar
    ELSE "1.0.0"

generate_build_info(d, now, e, outcome, versionFile, versionVar) ==
    LET commit == get_git_commit(outcome)
        build_info == [build_time |-> now, build_env |-> e,
                       git_commit |-> commit.value,
                       version |-> get_version(versionFile, versionVar)]
    IN IF commit.raised THEN [node |-> d, ok |-> FALSE]
       ELSE WriteFile(d, "build-info.json", build_info)

----------------------------------------------------------------------------
(* Initial states: any content tree and any prior output tree              *)

\* the maps from a subset of names to the given nodes
ChildMaps(names, nodes) == UNION {[S -> nodes] : S \in SUBSET names}

\* trees two levels deep whose files all hold the bytes b
Trees(b) ==
    LET leaf == {File(Bytes(b)), Dir(EmptyCh)}
        sub == {File(Bytes(b))} \cup {Dir(c) : c \in ChildMaps(SubNames, leaf)}
    IN {Dir(c) : c \in ChildMaps(TopNames, sub)}

\* the entries under an artefact's name that the initial content may hold:
\* a file where build-info.json is written, a directory where sitemap.xml is
ArtefactClashes(b) ==
    {[name |-> "build-info.json", node |-> File(Bytes(b))],
     [name |-> "sitemap.xml", node |-> Dir(EmptyCh)]}

\* a tree that holds, besides, one top-level entry under an artefact's name
WithArtefactName(t, b) ==
    {Dir([n \in DOMAIN t.ch \cup {e.name} |-> IF n = e.name THEN e.node ELSE t.ch[n]]) :
        e \in ArtefactClashes(b)}

ContentStates ==
    {Absent, File(Bytes("new"))} \cup Trees("new")
        \cup UNION {WithArtefactName(t, "new") : t \in Trees("new")}
DistStates == {Absent, File(Bytes("old"))} \cup Trees("old")

NoRun == [done |-> FALSE, dist |-> Absent, written |-> {}]

Init ==
    /\ content \in ContentStates
    /\ dist \in DistStates
    /\ clean \in BOOLEAN
    /\ env \in Envs
    /\ gitEnv \in GitEnvs
    /\ pc = "start"
    /\ exit_code = NotExited
    /\ todo = {}
    /\ clock = 0
    /\ run = 1
    /\ steps = <<>>
    /\ dist0 = dist
    /\ written = {}
    /\ prev = NoRun

----------------------------------------------------------------------------
(* build(): one action per step                                            *)

\* the except block without its sys.exit(1): the process ends normally
Fail_ExitZero ==
    /\ pc' = "failed"
    /\ exit_code' = 0

\* a step raised (or called sys.exit(1)): the process ends with status 1
Fail ==
    /\ pc' = "failed"
    /\ exit_code' = 1

\* build() logs the start and reads start_time
Start ==
    /\ pc = "start"
    /\ pc' = "prepare"
    /\ clock' = clock + 1
    /\ UNCHANGED <<content, dist, clean, env, gitEnv, exit_code, todo, run,
                   steps, dist0, written, prev>>

Prepare ==
    /\ pc = "prepare"
    /\ steps' = Append(steps, "prepare")
    /\ LET r == setup_directories(content, dist, clean) IN
         /\ dist' = r.dist
         /\ IF r.ok THEN pc' = "copy" /\ UNCHANGED exit_code ELSE Fail
    /\ UNCHANGED <<content, clean, env, gitEnv, todo, clock, run, dist0, written, prev>>

\* copy_static_files up to the first iteration: iterdir raises on a regular file
CopyBegin ==
    /\ pc = "copy"
    /\ steps' = Append(steps, "copy")
    /\ IF ~IsDir(content) THEN Fail /\ UNCHANGED todo
       ELSE /\ todo' = DOMAIN content.ch
            /\ pc' = IF DOMAIN content.ch = {} THEN "sitemap" ELSE "copying"
            /\ UNCHANGED exit_code
    /\ UNCHANGED <<content, dist, clean, env, gitEnv, clock, run, dist0, written, prev>>

\* one iteration of the loop over content_dir.iterdir(), in any order
CopyItem ==
    /\ pc = "copying"
    /\ \E item \in todo :
         LET r == CopyEntry(content.ch[item], dist.ch, item) IN
           /\ dist' = Dir([n \in DOMAIN dist.ch \cup {item} |->
                             IF n = item THEN r.node ELSE dist.ch[n]])
           /\ written' = written \cup r.wrote
           /\ todo' = todo \ {item}
           /\ IF ~r.ok THEN Fail
              ELSE /\ pc' = IF todo = {item} THEN "sitemap" ELSE "copying"
                   /\ UNCHANGED exit_code
    /\ UNCHANGED <<content, clean, env, gitEnv, clock, run, steps, dist0, prev>>

Sitemap ==
    /\ pc = "sitemap"
    /\ steps' = Append(steps, "sitemap")
    /\ \E sep \in {"/", "\\"} :
         LET r == generate_sitemap(dist, sep) IN
           /\ dist' = r.node
           /\ IF r.ok THEN pc' = "build-info" /\ UNCHANGED exit_code ELSE Fail
    /\ UNCHANGED <<content, clean, env, gitEnv, todo, clock, run, dist0, written, prev>>

VersionFiles == {NoValue, "2.0.0"}
VersionVars == {NoValue, "2.0.0"}

\* generate_build_info, then the success log and a normal exit
BuildInfo ==
    /\ pc = "build-info"
    /\ steps' = Append(steps, "build-info")
    /\ clock' = clock + 1
    /\ \E vf \in VersionFiles, vv \in VersionVars :
         LET r == generate_build_info(dist, clock, env, gitEnv, vf, vv) IN
           /\ dist' = r.node
           /\ IF r.ok THEN pc' = "done" /\ exit_code' = 0 ELSE Fail
    /\ UNCHANGED <<content, clean, env, gitEnv, todo, run, dist0, written, prev>>

\* the script is invoked again, without --clean, on the same content
RunAgain ==
    /\ pc \in {"done", "failed"}
    /\ run < MaxRuns
    /\ run' = run + 1
    /\ prev' = [done |-> pc = "done", dist |-> dist, written |-> written]
    /\ pc' = "start"
    /\ exit_code' = NotExited
    /\ clean' = FALSE
    /\ todo' = {}
    /\ steps' = <<>>
    /\ dist0' = dist
    /\ written' = {}
    /\ UNCHANGED <<content, dist, env, gitEnv, clock>>

Next ==
    \/ Start
    \/ Prepare
    \/ CopyBegin
    \/ CopyItem
    \/ Sitemap
    \/ BuildInfo
    \/ RunAgain

Spec == Init /\ [][Next]_vars

\* build() runs its steps one after the other until it returns or exits;
\* whether the script is invoked again is up to its user
BuildStep == Start \/ Prepare \/ CopyBegin \/ CopyItem \/ Sitemap \/ BuildInfo

FairSpec == Spec /\ WF_vars(BuildStep)

----------------------------------------------------------------------------
(* Vocabulary of the properties                                            *)

AllSteps == <<"prepare", "copy", "sitemap", "build-info">>

IsPrefix(s, t) == Len(s) <= Len(t) /\ \A i \in 1..Len(s) : s[i] = t[i]

Terminated == pc \in {"done", "failed"}

\* the node at relative path p (a sequence of names) below node n
RECURSIVE Lookup(_, _)
Lookup(n, p) ==
    IF p = <<>> THEN n
    ELSE IF IsDir(n) /\ Head(p) \in DOMAIN n.ch THEN Lookup(n.ch[Head(p)], Tail(p))
    ELSE Absent

\* the files at or below node n: path and data
FilesOf(n) ==
    IF IsFile(n) THEN {[path |-> <<>>, data |-> n.data]}
    ELSE {[path |-> e.path, data |-> e.node.data] : e \in {w \in Walk(n) : IsFile(w.node)}}

\* the paths at or below node n
PathsOf(n) == IF Exists(n) THEN {<<>>} \cup {e.path : e \in Walk(n)} ELSE {}

ArtefactPaths == {<<a>> : a \in ArtefactNames}

\* the url entries of the sitemap.xml at the root of d
UrlsOf(d) == d.ch["sitemap.xml"].data.urls

\* the record written to build-info.json at the root of d
BuildInfoOf(d) == d.ch["build-info.json"].data

\* the regular files below d whose name ends in .html
HtmlFilesOf(d) == {f.path : f \in {g \in FilesOf(d) : g.path[Len(g.path)] \in HtmlNames}}

\* a relative path written as a URL path: a slash before every name
RECURSIVE SlashPath(_)
SlashPath(p) == IF p = <<>> THEN <<>> ELSE <<"/", Head(p)>> \o SlashPath(Tail(p))

Parent(p) == SubSeq(p, 1, Len(p) - 1)

\* the URL paths that name the parent directory of p: '/' for the root,
\* else the parent's path with or without a trailing slash
ParentLocs(p) ==
    IF Len(p) = 1 THEN {<<"/">>}
    ELSE {SlashPath(Parent(p)), SlashPath(Parent(p)) \o <<"/">>}

\* dst holds everything src holds: the same files with the same data, the
\* same directories with at least the same entries
RECURSIVE Holds(_, _)
Holds(dst, src) ==
    IF IsFile(src) THEN dst = src
    ELSE /\ IsDir(dst)
         /\ \A n \in DOMAIN src.ch : n \in DOMAIN dst.ch /\ Holds(dst.ch[n], src.ch[n])

----------------------------------------------------------------------------
(* C1 *)

\* C1: when the content directory does not exist, whatever the clean flag
\* and the prior output directory, no step after prepare is entered, the
\* run ends failed with exit code 1 and never with 0, and the output
\* directory is as it was when the run started.
C1_MissingContentLeavesOutputAlone ==
    ~Exists(content) =>
        /\ dist = dist0
        /\ IsPrefix(steps, <<"prepare">>)
        /\ pc \in {"start", "prepare", "failed"}
        /\ exit_code # 0
        /\ (steps # <<>> => pc = "failed" /\ exit_code = 1)

C1_Witness ==
    /\ ~Exists(content)
    /\ clean
    /\ IsDir(dist0) /\ DOMAIN dist0.ch # {}
    /\ pc = "failed"
    /\ exit_code = 1

----------------------------------------------------------------------------
(* C5 *)

\* C5: after a completed build with --clean on an existing output
\* directory, every path of the output directory is a path of content or a
\* generated artefact, no file keeps bytes from before the run, and every
\* prior path that the run does not produce is gone.
C5_CleanRemovesPriorContents ==
    (clean /\ IsDir(dist0) /\ pc = "done") =>
        /\ PathsOf(dist) \subseteq PathsOf(content) \cup ArtefactPaths
        /\ \A f \in FilesOf(dist) : f.data # Bytes("old")
        /\ \A q \in PathsOf(dist0) \ (PathsOf(content) \cup ArtefactPaths) :
              ~Exists(Lookup(dist, q))

C5_Witness ==
    /\ clean
    /\ pc = "done"
    /\ IsDir(dist0)
    /\ \E q \in PathsOf(dist0) : q \notin PathsOf(content) /\ ~Exists(Lookup(dist, q))
    /\ \E q \in PathsOf(dist0) : q # <<>> /\ q \in PathsOf(content)

----------------------------------------------------------------------------
(* C10 *)

\* C10: in a build without --clean, at every point of the run and
\* however it ends, every path the output directory held when the run
\* started is still there and of the same kind, and every file among them
\* that the copy did not write and that is neither sitemap.xml nor
\* build-info.json still has its data.
C10_NoCleanDeletesNothing ==
    ~clean =>
        /\ \A q \in PathsOf(dist0) : Lookup(dist, q).kind = Lookup(dist0, q).kind
        /\ \A f \in FilesOf(dist0) :
              f.path \notin written \cup ArtefactPaths => Lookup(dist, f.path) = File(f.data)

C10_Witness ==
    /\ ~clean
    /\ pc = "failed"
    /\ written # {}
    /\ \E f \in FilesOf(dist0) : f.path \notin written /\ Lookup(dist, f.path) = File(f.data)
    /\ \E f \in FilesOf(dist0) : f.path \in written /\ Lookup(dist, f.path) # File(f.data)

----------------------------------------------------------------------------
(* C2 *)

\* C2: after a build that completes, every top-level file of content is in
\* the output directory under its name as a file with the same bytes, and
\* every top-level directory of content is there as a directory holding
\* the same subtree, whatever the output directory held before.
C2_EveryTopLevelEntryCopied ==
    pc = "done" =>
        \A n \in DOMAIN content.ch :
            n \in DOMAIN dist.ch /\ Holds(dist.ch[n], content.ch[n])

----------------------------------------------------------------------------
(* C3 *)

\* C3: after a build that completes, sitemap.xml holds exactly one url
\* entry for each HTML file of the output directory and none for anything
\* else, and index.html at the root is listed with loc '/'.
C3_ExactlyTheHtmlFiles ==
    pc = "done" =>
        LET urls == UrlsOf(dist)
            html == HtmlFilesOf(dist)
        IN /\ DOMAIN urls = {Loc(p, "/") : p \in html}
           /\ \A l \in DOMAIN urls : urls[l] = 1
           /\ Cardinality(DOMAIN urls) = Cardinality(html)
           /\ (<<"index.html">> \in html => <<"/">> \in DOMAIN urls)

----------------------------------------------------------------------------
(* C4 *)

\* C4: after the sitemap is written, every HTML file named index.html, at
\* any depth, is listed under the path of its parent directory (with or
\* without a trailing slash) and every other HTML file under its full
\* forward-slash path.
C4_IndexAtAnyDepth ==
    pc \in {"build-info", "done"} =>
        \A p \in HtmlFilesOf(dist) :
            IF p[Len(p)] = "index.html"
            THEN ParentLocs(p) \cap DOMAIN UrlsOf(dist) # {}
            ELSE SlashPath(p) \in DOMAIN UrlsOf(dist)

\* C4 (amended): after the sitemap is written, the file index.html at the
\* root of the output directory is listed with loc '/', and every other
\* HTML file, index.html in a subdirectory included, is listed under its
\* full forward-slash path.
C4_IndexAtRootOnly ==
    pc \in {"build-info", "done"} =>
        \A p \in HtmlFilesOf(dist) :
            IF p = <<"index.html">>
            THEN <<"/">> \in DOMAIN UrlsOf(dist)
            ELSE SlashPath(p) \in DOMAIN UrlsOf(dist)

C4_Witness ==
    /\ pc = "done"
    /\ <<"index.html">> \in HtmlFilesOf(dist)
    /\ <<"a", "index.html">> \in HtmlFilesOf(dist)
    /\ <<"/", "a", "/", "index.html">> \in DOMAIN UrlsOf(dist)

----------------------------------------------------------------------------
(* C7 *)

\* C7: whatever the revision command does, once the build-info step has
\* run (and build-info.json is not a directory) the build is done and
\* build-info.json holds build_time and build_env, with git_commit null
\* when no revision was obtained.
C7_RevisionNeverFatal ==
    (steps = AllSteps /\ ~IsDir(Lookup(dist, <<"build-info.json">>))) =>
        /\ pc = "done"
        /\ IsFile(Lookup(dist, <<"build-info.json">>))
        /\ {"build_time", "build_env", "git_commit"} \subseteq DOMAIN BuildInfoOf(dist)
        /\ BuildInfoOf(dist).build_env = env
        /\ (gitEnv # GitOk => BuildInfoOf(dist).git_commit = NoValue)

----------------------------------------------------------------------------
(* C9 *)

\* C9: whenever the copy loop is about to copy a directory of content onto
\* an existing directory of the output, that copy does not fail, every
\* destination file whose relative path is that of a file of the source
\* subtree ends with the source's data, and every destination file with no
\* counterpart in the source subtree keeps its data.
C9_MergeNeverRefuses ==
    pc = "copying" =>
        \A item \in todo :
            (IsDir(content.ch[item]) /\ item \in DOMAIN dist.ch /\ IsDir(dist.ch[item])) =>
                LET r == CopyEntry(content.ch[item], dist.ch, item)
                    src == FilesOf(content.ch[item])
                IN /\ r.ok
                   /\ \A f \in src :
                         IsFile(Lookup(dist.ch[item], f.path))
                            => Lookup(r.node, f.path) = File(f.data)
                   /\ \A g \in FilesOf(dist.ch[item]) :
                         g.path \notin {f.path : f \in src}
                            => Lookup(r.node, g.path) = File(g.data)

----------------------------------------------------------------------------
(* C8 *)

----------------------------------------------------------------------------
(* C6 *)

\* C6: the steps are entered in the order prepare, copy, sitemap,
\* build-info; the failed state means exit code 1 and, once reached,
\* no further step is entered and the output directory is left as it is;
\* exit code 0 is given only in done after all four steps; and every run
\* eventually reaches done or failed.
C6_LinearOrchestration ==
    /\ [](IsPrefix(steps, AllSteps))
    /\ [](pc = "failed" <=> exit_code = 1)
    /\ [](pc = "done" <=> exit_code = 0)
    /\ [](pc = "done" => steps = AllSteps)
    /\ [][(pc = "failed" /\ run' = run) => (pc' = "failed" /\ steps' = steps /\ dist' = dist)]_vars
    /\ [][(steps' # steps /\ run' = run) => (pc \notin {"done", "failed"} /\ steps' = Append(steps, AllSteps[Len(steps) + 1]))]_vars
    /\ [](~Terminated => <>Terminated)

C6_Witness ==
    /\ pc = "failed"
    /\ exit_code = 1
    /\ steps = <<"prepare", "copy", "sitemap">>

====
